---- MODULE Spec2Model ----
(***************************************************************************)
(* The local note store of App.tsx: the notes table of localdata.db, the   *)
(* React state of the App component, and the asynchronous handlers         *)
(* (startup effect, createOrUpdateNote, deleteNote, reloadNotes) that      *)
(* connect them.  Every `await` of the source is a point where a handler   *)
(* is suspended; the storage engine executes one statement at a time and   *)
(* the handler's continuation runs in a later step.                        *)
(***************************************************************************)
EXTENDS Integers, Sequences, FiniteSets, TLC

\* ---- bounds of the model ----
MaxCalls == 2       \* handler invocations (Save / confirmed Delete) in one run
MaxClock == 1       \* Date.now() and created_at range over 0..MaxClock
MaxFailures == 1    \* storage-engine failures injected in one run
MaxNotes == 3       \* rows of a snapshot in the view specification
MaxQueryLen == 2    \* length of a search string in the view specification

\* editingId == null (useState<number | null>(null)); rowids start at 1
NoId == 0

VARIABLES
  tableExists,   \* the notes table exists in localdata.db
  table,         \* rows of the notes table
  seq,           \* sqlite_sequence.seq of notes (AUTOINCREMENT high-water mark)
  now,           \* Date.now()
  tasks,         \* handler invocations: 0 is the startup effect, 1.. are Save/Delete
  notes,         \* useState notes (the array object, in its current order)
  query,         \* useState query
  sortNewest,    \* useState sortNewest
  filtered,      \* useMemo filtered, as of the last render
  modalVisible,  \* useState modalVisible
  editingId,     \* useState editingId
  draft,         \* useState draft
  toast,         \* useState toast (its text; "" is null)
  assigned,      \* history: every id the table ever assigned
  deleted,       \* history: ids of rows removed by an executed DELETE
  updated,       \* history: ids of rows changed by an executed UPDATE
  failures       \* history: number of injected storage failures

vars == <<tableExists, table, seq, now, tasks, notes, query, sortNewest, filtered,
          modalVisible, editingId, draft, toast, assigned, deleted, updated, failures>>

dbVars == <<tableExists, table, seq, assigned, deleted, updated>>
uiVars == <<notes, query, sortNewest, filtered, modalVisible, editingId, draft, toast>>

\* ---- strings: a string is a sequence of characters; "A" is the one
\* upper-case letter of the model, "a" its lower case ----
\* the characters the user types into the search box
Chars == {" ", "A"}

RECURSIVE SeqsUpTo(_, _)
SeqsUpTo(S, n) ==
  IF n = 0 THEN {<<>>}
  ELSE LET shorter == SeqsUpTo(S, n - 1)
       IN shorter \cup {Append(s, c) : s \in {x \in shorter : Len(x) = n - 1}, c \in S}

RECURSIVE trimStart(_)
trimStart(s) ==
  IF Len(s) > 0 /\ Head(s) = " " THEN trimStart(Tail(s)) ELSE s

RECURSIVE trimEnd(_)
trimEnd(s) ==
  IF Len(s) > 0 /\ s[Len(s)] = " " THEN trimEnd(SubSeq(s, 1, Len(s) - 1)) ELSE s

\* String.prototype.trim
trim(s) == trimEnd(trimStart(s))

\* String.prototype.toLowerCase
toLowerCase(s) == [i \in 1..Len(s) |-> IF s[i] = "A" THEN "a" ELSE s[i]]

RECURSIVE startsWithAt(_, _, _, _)
startsWithAt(s, q, pos, k) ==
  IF k > Len(q) THEN TRUE
  ELSE IF pos + k - 1 > Len(s) THEN FALSE
  ELSE IF s[pos + k - 1] # q[k] THEN FALSE
  ELSE startsWithAt(s, q, pos, k + 1)

RECURSIVE indexOfFrom(_, _, _)
indexOfFrom(s, q, pos) ==
  IF pos + Len(q) - 1 > Len(s) THEN 0
  ELSE IF startsWithAt(s, q, pos, 1) THEN pos
  ELSE indexOfFrom(s, q, pos + 1)

\* String.prototype.includes
includes(s, q) == indexOfFrom(s, q, 1) # 0

\* ---- the filtered view (useMemo) ----
\* the comparator with the two branches of its conditional exchanged
compareSwapped(a, b, newest) ==
  IF newest THEN a.created_at - b.created_at ELSE b.created_at - a.created_at

compare(a, b, newest) ==
  IF newest THEN b.created_at - a.created_at ELSE a.created_at - b.created_at

\* x goes behind every element that does not compare greater than it
RECURSIVE insertSorted(_, _, _)
insertSorted(x, s, newest) ==
  IF Len(s) = 0 THEN <<x>>
  ELSE IF compare(s[Len(s)], x, newest) <= 0 THEN Append(s, x)
  ELSE Append(insertSorted(x, SubSeq(s, 1, Len(s) - 1), newest), s[Len(s)])

RECURSIVE sortFrom(_, _, _, _)
sortFrom(data, i, acc, newest) ==
  IF i > Len(data) THEN acc
  ELSE sortFrom(data, i + 1, insertSorted(data[i], acc, newest), newest)

\* Array.prototype.sort with the comparator of line 253 (a stable sort)
sort(data, newest) == sortFrom(data, 1, <<>>, newest)

\* the predicate without toLowerCase() on the title
matchesCaseSensitive(n, q) == includes(n.title, q)

matches(n, q) == includes(toLowerCase(n.title), q)

filter(list, q) == SelectSeq(list, LAMBDA n : matches(n, q))

needle(qry) == toLowerCase(trim(qry))

\* the value of `filtered` for the given state
filteredOf(list, qry, newest) ==
  LET q == needle(qry)
      data == IF Len(q) > 0 THEN filter(list, q) ELSE list
  IN sort(data, newest)

\* sort() works in place: with an empty q, data is the notes array itself
notesAfterRender(list, qry, newest) ==
  IF Len(needle(qry)) > 0 THEN list ELSE sort(list, newest)

\* a render with the given notes, query and sortNewest
Render(list, qry, newest) ==
  /\ notes' = notesAfterRender(list, qry, newest)
  /\ query' = qry
  /\ sortNewest' = newest
  /\ filtered' = filteredOf(list, qry, newest)

\* ---- the notes table ----
Note(i, t, c) == [id |-> i, title |-> t, created_at |-> c]

Ids(rows) == {r.id : r \in rows}

MaxOf(S) == CHOOSE m \in S : \A x \in S : x <= m

\* a rowid chosen from the rows alone, as without AUTOINCREMENT
nextRowidFromRows(rows, s) == MaxOf({0} \cup Ids(rows)) + 1

\* INTEGER PRIMARY KEY AUTOINCREMENT
nextRowid(rows, s) == MaxOf({s} \cup Ids(rows)) + 1

\* the statement executed twice
sqlInsertTwice(rows, s, text, ts) ==
  rows \cup {Note(nextRowid(rows, s), text, ts), Note(nextRowid(rows, s) + 1, text, ts)}

\* INSERT INTO notes (title, created_at) VALUES (?, ?)
sqlInsert(rows, s, text, ts) == rows \cup {Note(nextRowid(rows, s), text, ts)}

\* the statement without its WHERE clause
sqlUpdateAll(rows, text, id) == {[r EXCEPT !.title = text] : r \in rows}

\* an upsert (INSERT OR REPLACE) in place of the UPDATE
sqlUpsert(rows, text, id) ==
  IF id \in Ids(rows) THEN {IF r.id = id THEN [r EXCEPT !.title = text] ELSE r : r \in rows}
  ELSE rows \cup {Note(id, text, 0)}

\* UPDATE notes SET title = ? WHERE id = ?
sqlUpdate(rows, text, id) ==
  {IF r.id = id THEN [r EXCEPT !.title = text] ELSE r : r \in rows}

\* DELETE FROM notes WHERE id = ?
sqlDelete(rows, id) == {r \in rows : r.id # id}

RECURSIVE rowsFrom(_, _)
rowsFrom(rows, acc) ==
  IF rows = {} THEN acc
  ELSE LET r == CHOOSE x \in rows : \A y \in rows : x.id <= y.id
       IN rowsFrom(rows \ {r}, Append(acc, r))

\* SELECT id, title, created_at FROM notes  (rows come in rowid order)
sqlSelect(rows) == rowsFrom(rows, <<>>)

\* ---- handler invocations ----
Startup == 0
Calls == 1..MaxCalls
TaskIds == {Startup} \cup Calls

IdleTask == [kind |-> "none", pc |-> "idle", text |-> <<>>, id |-> NoId, ts |-> 0,
             list |-> <<>>, newId |-> NoId, notice |-> "none"]

\* the slot of the next handler invocation
NextCall == CHOOSE t \in Calls : tasks[t].pc = "idle" /\ \A u \in Calls : u < t => tasks[u].pc # "idle"

CanCall == \E t \in Calls : tasks[t].pc = "idle"

\* databases a previous run of the app can have left on the device
PersistedDbs ==
  { [exists |-> FALSE, rows |-> {}, seq |-> 0],
    [exists |-> TRUE, rows |-> {Note(1, <<"a">>, 0)}, seq |-> 1] }

\* what the user can type into the modal's TextInput
Drafts == { <<" ">>, <<" ", "b">> }

\* what the user can type into the search box
Queries == SeqsUpTo(Chars, MaxQueryLen)

Init ==
  /\ \E d \in PersistedDbs :
       /\ tableExists = d.exists
       /\ table = d.rows
       /\ seq = d.seq
       /\ assigned = 1..d.seq
  /\ deleted = {}
  /\ updated = {}
  /\ failures = 0
  /\ now = 0
  /\ tasks = [t \in TaskIds |->
               IF t = Startup THEN [IdleTask EXCEPT !.kind = "startup", !.pc = "getItem"]
               ELSE IdleTask]
  /\ notes = <<>>
  /\ query = <<>>
  /\ sortNewest = TRUE
  /\ filtered = <<>>
  /\ modalVisible = FALSE
  /\ editingId = NoId
  /\ draft = <<>>
  /\ toast = ""

\* ---- the toast timer ----
\* setTimeout(() => setToast(null), 1500)
ToastExpire ==
  /\ toast # ""
  /\ toast' = ""
  /\ UNCHANGED <<dbVars, now, tasks, failures, notes, query, sortNewest, filtered,
                 modalVisible, editingId, draft>>

\* ---- plain UI events ----
\* the floating action button
PressAdd ==
  /\ ~modalVisible
  /\ editingId' = NoId
  /\ draft' = <<>>
  /\ modalVisible' = TRUE
  /\ UNCHANGED <<dbVars, now, tasks, failures, notes, query, sortNewest, filtered, toast>>

\* the pencil of a rendered item
PressEdit(i) ==
  /\ ~modalVisible
  /\ editingId' = filtered[i].id
  /\ draft' = filtered[i].title
  /\ modalVisible' = TRUE
  /\ UNCHANGED <<dbVars, now, tasks, failures, notes, query, sortNewest, filtered, toast>>

ChangeDraft(s) ==
  /\ modalVisible
  /\ draft # s
  /\ draft' = s
  /\ UNCHANGED <<dbVars, now, tasks, failures, notes, query, sortNewest, filtered,
                 modalVisible, editingId, toast>>

PressCancel ==
  /\ modalVisible
  /\ modalVisible' = FALSE
  /\ editingId' = NoId
  /\ UNCHANGED <<dbVars, now, tasks, failures, notes, query, sortNewest, filtered,
                 draft, toast>>

\* Modal onRequestClose
RequestClose ==
  /\ modalVisible
  /\ modalVisible' = FALSE
  /\ UNCHANGED <<dbVars, now, tasks, failures, notes, query, sortNewest, filtered,
                 editingId, draft, toast>>

\* the search box (onChangeText, and the clear button with f = "")
SetQuery(f) ==
  /\ ~modalVisible
  /\ query # f
  /\ Render(notes, f, sortNewest)
  /\ UNCHANGED <<dbVars, now, tasks, failures, modalVisible, editingId, draft, toast>>

\* the sort chip
ToggleSort ==
  /\ ~modalVisible
  /\ Render(notes, query, ~sortNewest)
  /\ UNCHANGED <<dbVars, now, tasks, failures, modalVisible, editingId, draft, toast>>

\* ---- the startup effect (useEffect, lines 173-184) ----
\* AsyncStorage.getItem resolves; initDb() is called and awaits getDb()
GetItemResolved ==
  /\ tasks[Startup].pc = "getItem"
  /\ tasks' = [tasks EXCEPT ![Startup].pc = "initOpen"]
  /\ UNCHANGED <<dbVars, uiVars, now, failures>>

\* initDb: getDb() resolves and CREATE TABLE IF NOT EXISTS is issued
InitOpened ==
  /\ tasks[Startup].pc = "initOpen"
  /\ tasks' = [tasks EXCEPT ![Startup].pc = "create"]
  /\ UNCHANGED <<dbVars, uiVars, now, failures>>

\* the engine executes CREATE TABLE IF NOT EXISTS notes (...)
CreateTable ==
  /\ tasks[Startup].pc = "create"
  /\ tableExists' = TRUE
  /\ tasks' = [tasks EXCEPT ![Startup].pc = "created"]
  /\ UNCHANGED <<table, seq, assigned, deleted, updated, uiVars, now, failures>>

\* initDb() returns; the effect calls reloadNotes(), which awaits getDb()
InitReturned ==
  /\ tasks[Startup].pc = "created"
  /\ tasks' = [tasks EXCEPT ![Startup].pc = "open"]
  /\ UNCHANGED <<dbVars, uiVars, now, failures>>

\* Initialize() has completed: the promise of initDb() is resolved
Initialized == tasks[Startup].pc \in {"open", "select", "selected", "done", "caught"}

\* ---- reloadNotes (lines 187-194), run by every handler ----
\* getDb() resolves and the SELECT is issued
ReloadOpened(t) ==
  /\ tasks[t].pc = "open"
  /\ tasks' = [tasks EXCEPT ![t].pc = "select"]
  /\ UNCHANGED <<dbVars, uiVars, now, failures>>

\* the engine executes the SELECT; without the table the statement fails
ReloadSelect(t) ==
  /\ tasks[t].pc = "select"
  /\ tasks' = IF tableExists
              THEN [tasks EXCEPT ![t].pc = "selected", ![t].list = sqlSelect(table)]
              ELSE [tasks EXCEPT ![t].pc = IF t = Startup THEN "caught" ELSE "rejected"]
  /\ UNCHANGED <<dbVars, uiVars, now, failures>>

\* the rows are copied into list, setNotes(list), and the component renders
SetNotes(t) ==
  /\ tasks[t].pc = "selected"
  /\ Render(tasks[t].list, query, sortNewest)
  /\ tasks' = [tasks EXCEPT ![t].pc = "done", ![t].list = <<>>,
                            ![t].text = <<>>, ![t].ts = 0]
  /\ UNCHANGED <<dbVars, now, failures, modalVisible, editingId, draft, toast>>

\* ---- createOrUpdateNote (lines 205-220) ----
\* the guard applied to the draft as typed
shouldReturnUntrimmed(d) == Len(d) = 0

\* lines 206-207: text = draft.trim(); if (!text) return
shouldReturn(d) == Len(trim(d)) = 0

\* the Add/Save button of the modal
PressSave ==
  /\ modalVisible
  /\ CanCall
  /\ LET t == NextCall
         text == trim(draft)
     IN tasks' = IF shouldReturn(draft)
                 THEN [tasks EXCEPT ![t] = [IdleTask EXCEPT !.kind = "save", !.pc = "returned"]]
                 ELSE [tasks EXCEPT ![t] = [IdleTask EXCEPT !.kind = "save", !.pc = "open1",
                                                            !.text = text, !.id = editingId]]
  /\ UNCHANGED <<dbVars, uiVars, now, failures>>

\* getDb() resolves; the statement is issued with its arguments.  Date.now()
\* is read here and nowhere else, so the time that has passed since the last
\* reading is added when it is read: it returns some time >= now
SaveOpened(t, time) ==
  /\ tasks[t].kind = "save"
  /\ tasks[t].pc = "open1"
  /\ IF tasks[t].id = NoId
     THEN /\ now' = time
          /\ tasks' = [tasks EXCEPT ![t].pc = "stmt", ![t].ts = time]
     ELSE /\ now' = now
          /\ tasks' = [tasks EXCEPT ![t].pc = "stmt"]
  /\ UNCHANGED <<dbVars, uiVars, failures>>

\* the engine executes the INSERT
ExecInsert(t) ==
  /\ tasks[t].kind = "save"
  /\ tasks[t].pc = "stmt"
  /\ tasks[t].id = NoId
  /\ tableExists
  /\ table' = sqlInsert(table, seq, tasks[t].text, tasks[t].ts)
  /\ seq' = nextRowid(table, seq)
  /\ assigned' = assigned \cup (Ids(table') \ Ids(table))
  /\ tasks' = [tasks EXCEPT ![t].pc = "stmtDone", ![t].newId = nextRowid(table, seq)]
  /\ UNCHANGED <<tableExists, deleted, updated, uiVars, now, failures>>

\* the engine executes the UPDATE
ExecUpdate(t) ==
  /\ tasks[t].kind = "save"
  /\ tasks[t].pc = "stmt"
  /\ tasks[t].id # NoId
  /\ tableExists
  /\ table' = sqlUpdate(table, tasks[t].text, tasks[t].id)
  /\ updated' = updated \cup (Ids(table) \cap {tasks[t].id})
  /\ tasks' = [tasks EXCEPT ![t].pc = "stmtDone"]
  /\ UNCHANGED <<tableExists, seq, assigned, deleted, uiVars, now, failures>>

\* lines 211/214 and 216-219: the toast, the modal is reset, reloadNotes() is called
SaveContinue(t) ==
  /\ tasks[t].kind = "save"
  /\ tasks[t].pc = "stmtDone"
  /\ toast' = IF tasks[t].id = NoId THEN "Note added" ELSE "Note updated"
  /\ draft' = <<>>
  /\ editingId' = NoId
  /\ modalVisible' = FALSE
  /\ tasks' = [tasks EXCEPT ![t].pc = "open", ![t].notice = "success"]
  /\ UNCHANGED <<dbVars, now, failures, notes, query, sortNewest, filtered>>

\* ---- deleteNote (lines 222-227) ----
\* the trash can of a rendered item, confirmed in the alert
PressDelete(i) ==
  /\ ~modalVisible
  /\ CanCall
  /\ tasks' = [tasks EXCEPT ![NextCall] = [IdleTask EXCEPT !.kind = "delete", !.pc = "open1",
                                                           !.id = filtered[i].id]]
  /\ UNCHANGED <<dbVars, uiVars, now, failures>>

\* getDb() resolves and the DELETE is issued
DeleteOpened(t) ==
  /\ tasks[t].kind = "delete"
  /\ tasks[t].pc = "open1"
  /\ tasks' = [tasks EXCEPT ![t].pc = "stmt"]
  /\ UNCHANGED <<dbVars, uiVars, now, failures>>

\* the engine executes the DELETE
ExecDelete(t) ==
  /\ tasks[t].kind = "delete"
  /\ tasks[t].pc = "stmt"
  /\ tableExists
  /\ table' = sqlDelete(table, tasks[t].id)
  /\ deleted' = deleted \cup (Ids(table) \cap {tasks[t].id})
  /\ tasks' = [tasks EXCEPT ![t].pc = "stmtDone"]
  /\ UNCHANGED <<tableExists, seq, assigned, updated, uiVars, now, failures>>

\* line 225 and the call of reloadNotes()
DeleteContinue(t) ==
  /\ tasks[t].kind = "delete"
  /\ tasks[t].pc = "stmtDone"
  /\ toast' = "Note deleted"
  /\ tasks' = [tasks EXCEPT ![t].pc = "open", ![t].notice = "success"]
  /\ UNCHANGED <<dbVars, now, failures, notes, query, sortNewest, filtered,
                 modalVisible, editingId, draft>>

\* ---- failures of the storage engine ----
\* INSERT, UPDATE or DELETE against a database without the notes table
ExecNoTable(t) ==
  /\ tasks[t].pc = "stmt"
  /\ ~tableExists
  /\ tasks' = [tasks EXCEPT ![t].pc = "rejected"]
  /\ UNCHANGED <<dbVars, uiVars, now, failures>>

Awaiting == {"getItem", "initOpen", "create", "open1", "stmt", "open", "select"}

\* the awaited promise rejects: the effect's catch logs it (line 181), a
\* handler has no catch and ends as an unhandled rejection
Reject(t) ==
  /\ failures < MaxFailures
  /\ tasks[t].pc \in Awaiting
  /\ failures' = failures + 1
  /\ tasks' = [tasks EXCEPT ![t].pc =
                 IF t # Startup THEN "rejected"
                 ELSE IF tasks[t].pc \in {"getItem", "initOpen", "create"} THEN "initFailed"
                 ELSE "caught"]
  /\ UNCHANGED <<dbVars, uiVars, now>>

\* ---- the specification of the note store ----
\* The search box stays empty here, so every loaded note is rendered and can
\* be edited or deleted; searching and sorting are the steps of SpecView.
Next ==
  \/ ToastExpire
  \/ PressAdd
  \/ \E i \in DOMAIN filtered : PressEdit(i)
  \/ \E s \in Drafts : ChangeDraft(s)
  \/ PressCancel
  \/ RequestClose
  \/ GetItemResolved
  \/ InitOpened
  \/ CreateTable
  \/ InitReturned
  \/ \E t \in TaskIds : ReloadOpened(t)
  \/ \E t \in TaskIds : ReloadSelect(t)
  \/ \E t \in TaskIds : SetNotes(t)
  \/ PressSave
  \/ \E t \in Calls : \E time \in now..MaxClock : SaveOpened(t, time)
  \/ \E t \in Calls : ExecInsert(t)
  \/ \E t \in Calls : ExecUpdate(t)
  \/ \E t \in Calls : SaveContinue(t)
  \/ \E i \in DOMAIN filtered : PressDelete(i)
  \/ \E t \in Calls : DeleteOpened(t)
  \/ \E t \in Calls : ExecDelete(t)
  \/ \E t \in Calls : DeleteContinue(t)
  \/ \E t \in Calls : ExecNoTable(t)
  \/ \E t \in TaskIds : Reject(t)

Spec == Init /\ [][Next]_vars

\* ---- the specification of the view: search and sort over a loaded snapshot ----
ViewTitles == { <<"b">>, <<"A", "a">> }

\* results of the SELECT: rows in rowid order, ids 1..n
Snapshots ==
  UNION { { [i \in 1..n |-> Note(i, ti[i], ts[i])] :
              ti \in [1..n -> ViewTitles], ts \in [1..n -> 0..MaxClock] } : n \in 0..MaxNotes }

InitView ==
  /\ \E list \in Snapshots :
       /\ table = {list[i] : i \in DOMAIN list}
       /\ seq = Len(list)
       /\ assigned = 1..Len(list)
       /\ notes = notesAfterRender(list, <<>>, TRUE)
       /\ filtered = filteredOf(list, <<>>, TRUE)
  /\ tableExists = TRUE
  /\ deleted = {}
  /\ updated = {}
  /\ failures = 0
  /\ now = MaxClock
  /\ tasks = [t \in TaskIds |->
               IF t = Startup THEN [IdleTask EXCEPT !.kind = "startup", !.pc = "done"]
               ELSE IdleTask]
  /\ query = <<>>
  /\ sortNewest = TRUE
  /\ modalVisible = FALSE
  /\ editingId = NoId
  /\ draft = <<>>
  /\ toast = ""

NextView ==
  \/ \E f \in Queries : SetQuery(f)
  \/ ToggleSort

SpecView == InitView /\ [][NextView]_vars

\* ==== properties of the note store ====
Shown == {filtered[i] : i \in DOMAIN filtered}

Loaded == {notes[i] : i \in DOMAIN notes}

AfterStmt == {"stmtDone", "open", "select", "selected", "done"}

\* task t's statement is executed in this step
Executes(t) == tasks[t].pc = "stmt" /\ tasks'[t].pc = "stmtDone"

IsInsert(t) == tasks[t].kind = "save" /\ tasks[t].id = NoId
IsUpdate(t) == tasks[t].kind = "save" /\ tasks[t].id # NoId
IsDelete(t) == tasks[t].kind = "delete"

\* task t's reloadNotes hands its list to setNotes in this step
Lists(t) == tasks[t].pc = "selected" /\ tasks'[t].pc = "done"

\* no UPDATE or DELETE has hit the row
Untouched(id) == id \notin deleted /\ id \notin updated

Positions(list, id) == {i \in DOMAIN list : list[i].id = id}

\* the INSERT of task t adds one row, with a fresh id, the trimmed draft as
\* title and the Date.now() read for it as created_at
InsertsOneRow(t) ==
  /\ table \subseteq table'
  /\ Cardinality(table' \ table) = 1
  /\ \A r \in table' \ table :
       /\ r.id \notin assigned
       /\ r.id \notin Ids(table)
       /\ r.id = tasks'[t].newId
       /\ r.title = tasks[t].text
       /\ Len(r.title) > 0
       /\ r.created_at = tasks[t].ts
       /\ r.created_at <= now

\* C1 as stated: the snapshot listed after an Insert holds exactly one note
\* with the inserted title
RoundTripOneTitle ==
  [][\A t \in Calls :
       (Lists(t) /\ IsInsert(t) /\ Untouched(tasks[t].newId)) =>
         Cardinality({i \in DOMAIN notes' : notes'[i].title = tasks[t].text}) = 1]_vars

\* C1 amended: an Insert adds exactly one row, titled with the trimmed draft,
\* with a fresh id and created_at the time read for the insert; the List that
\* follows holds exactly one note with that id, carrying that title and
\* created_at, unless an Update or Delete hit the row in between (other notes
\* may carry the same title)
RoundTrip ==
  [][\A t \in Calls :
       /\ (Executes(t) /\ IsInsert(t)) => InsertsOneRow(t)
       /\ (Lists(t) /\ IsInsert(t) /\ Untouched(tasks[t].newId)) =>
            /\ Cardinality(Positions(notes', tasks[t].newId)) = 1
            /\ \A i \in Positions(notes', tasks[t].newId) :
                 /\ notes'[i].title = tasks[t].text
                 /\ notes'[i].created_at = tasks[t].ts]_vars

\* C1: two Adds of " b" are each listed once, as notes titled "b"
RoundTripWitness ==
  \E t, u \in Calls :
    /\ t # u
    /\ tasks[t].kind = "save" /\ tasks[t].pc = "done" /\ tasks[t].newId # NoId
    /\ tasks[u].kind = "save" /\ tasks[u].pc = "done" /\ tasks[u].newId # NoId
    /\ Untouched(tasks[t].newId)
    /\ Untouched(tasks[u].newId)
    /\ \E i \in DOMAIN notes : notes[i].id = tasks[t].newId /\ notes[i].title = <<"b">>
    /\ \E i \in DOMAIN notes : notes[i].id = tasks[u].newId /\ notes[i].title = <<"b">>

\* C2: a deleted id is in no row and in no later SELECT result, and an
\* UPDATE or DELETE on it runs without error and leaves the table as it is
DeleteFinality ==
  /\ [](\A r \in table : r.id \notin deleted)
  /\ [](\A t \in Calls :
          (tasks[t].pc = "stmt" /\ tasks[t].id \in deleted) =>
             (tableExists /\ tasks[t].kind \in {"save", "delete"}))
  /\ [][\A t \in TaskIds :
          (tasks[t].pc = "select" /\ tasks'[t].pc = "selected") =>
             \A i \in DOMAIN tasks'[t].list : tasks'[t].list[i].id \notin deleted]_vars
  /\ [][\A t \in Calls :
          (Executes(t) /\ tasks[t].id \in deleted) =>
             (table' = table /\ seq' = seq)]_vars

\* C2: an UPDATE has run on an id that a DELETE had removed before
DeleteFinalityWitness ==
  \E t, u \in Calls :
    /\ t # u
    /\ tasks[t].kind = "delete" /\ tasks[t].pc \in AfterStmt
    /\ tasks[u].kind = "save" /\ tasks[u].pc = "stmtDone"
    /\ tasks[u].id = tasks[t].id
    /\ tasks[u].id \in deleted
    /\ tasks[u].id \notin updated

\* C3: an UPDATE of an existing row changes that row's title and nothing
\* else: ids, created_at, the number of rows and every other row stay
UpdateImmutability ==
  [][\A t \in Calls :
       (Executes(t) /\ IsUpdate(t) /\ tasks[t].id \in Ids(table)) =>
         /\ Cardinality(table') = Cardinality(table)
         /\ Ids(table') = Ids(table)
         /\ seq' = seq
         /\ \A r \in table : \E r2 \in table' :
              /\ r2.id = r.id
              /\ r2.created_at = r.created_at
              /\ r.id # tasks[t].id => r2 = r
              /\ r.id = tasks[t].id => r2.title = tasks[t].text]_vars

\* C3: an UPDATE has retitled row 1 of a two-row table
UpdateImmutabilityWitness ==
  \E t \in Calls :
    /\ tasks[t].kind = "save" /\ tasks[t].pc = "stmtDone" /\ tasks[t].id = 1
    /\ 1 \in updated
    /\ Cardinality(table) = 2
    /\ \E r \in table : r.id = 1 /\ r.title = <<"b">> /\ r.created_at = 0

\* C4: ids of rows are pairwise distinct, the ids given to distinct inserts
\* are pairwise distinct, and no insert gets an id that was assigned before,
\* deleted or not
IdsNeverReused ==
  /\ [](\A r1, r2 \in table : r1.id = r2.id => r1 = r2)
  /\ [](\A t, u \in Calls :
          (t # u /\ tasks[t].newId # NoId /\ tasks[u].newId # NoId) =>
             tasks[t].newId # tasks[u].newId)
  /\ [][(Ids(table') \ Ids(table)) \cap assigned = {}]_vars

\* C4: a row was deleted and a later insert got a larger id
IdsNeverReusedWitness ==
  /\ deleted = {1}
  /\ \E t \in Calls : tasks[t].newId = 2 /\ Ids(table) = {2}

\* C5: Save with a blank draft, in add mode and in edit mode, returns at the
\* guard: no statement, no notice, and table, snapshot, draft, editingId and
\* modal stay as they are
EmptyTitleNoOp ==
  [][\A t \in Calls :
       (tasks[t].pc = "idle" /\ tasks'[t].kind = "save" /\ Len(trim(draft)) = 0) =>
         /\ tasks'[t].pc = "returned"
         /\ \A u \in TaskIds : u # t => tasks'[u] = tasks[u]
         /\ UNCHANGED <<dbVars, uiVars, now, failures>>]_vars

\* C5: Save was pressed in edit mode on a draft of one space
EmptyTitleNoOpWitness ==
  /\ \E t \in Calls : tasks[t].pc = "returned"
  /\ modalVisible
  /\ editingId # NoId
  /\ draft = <<" ">>

\* C8: no INSERT, UPDATE, DELETE or SELECT of a handler is executed before
\* Initialize() has completed
InitGate ==
  [][\A t \in Calls :
       (Executes(t) \/ (tasks[t].pc = "select" /\ tasks'[t].pc = "selected")) =>
          Initialized]_vars

\* C9: a handler that ended in a storage failure has shown an error notice
\* and no success notice
FailureSurfaced ==
  \A t \in TaskIds :
    tasks[t].pc \in {"rejected", "caught", "initFailed"} => tasks[t].notice = "error"

Quiescent == \A t \in TaskIds : tasks[t].pc \in {"idle", "returned", "done"}

LowerChar(c) == IF c = "A" THEN "a" ELSE c

\* f occurs in title when the case of letters is ignored
ContainsCI(title, f) ==
  \E i \in 1..(Len(title) - Len(f) + 1) :
    \A k \in 1..Len(f) : LowerChar(title[i + k - 1]) = LowerChar(f[k])

\* C6 as stated: the view holds exactly the notes whose title contains the
\* filter string itself as a case-insensitive substring (all notes for "")
FilterAsTyped ==
  /\ Shown = {n \in Loaded : ContainsCI(n.title, query)}
  /\ Len(filtered) = Cardinality(Shown)

\* C6 amended: the view holds exactly the notes whose title contains the
\* filter string, trimmed of surrounding whitespace, as a case-insensitive
\* substring, each once; a filter that trims to "" shows every note
FilterTrimmed ==
  /\ Shown = {n \in Loaded : ContainsCI(n.title, trim(query))}
  /\ Len(filtered) = Cardinality(Shown)

\* C6: a filter with surrounding whitespace selects some notes and not others
FilterTrimmedWitness ==
  /\ query # trim(query)
  /\ Len(trim(query)) > 0
  /\ Len(filtered) > 0
  /\ Len(filtered) < Len(notes)
  /\ \E i \in DOMAIN filtered : ~includes(filtered[i].title, query)

\* C7: the view is ordered by created_at, descending when sortNewest and
\* ascending otherwise, and notes with equal created_at stand in the order
\* the SELECT returned them (rowid order), in both directions
SortedView ==
  \A i, j \in DOMAIN filtered :
    i < j =>
      /\ sortNewest => filtered[i].created_at >= filtered[j].created_at
      /\ ~sortNewest => filtered[i].created_at <= filtered[j].created_at
      /\ filtered[i].created_at = filtered[j].created_at => filtered[i].id < filtered[j].id

\* C7: oldest-first under a filter, with a tie and a strict step in the view
SortedViewWitness ==
  /\ ~sortNewest
  /\ Len(needle(query)) > 0
  /\ \E i, j \in DOMAIN filtered :
       i < j /\ filtered[i].created_at = filtered[j].created_at
  /\ \E i, j \in DOMAIN filtered :
       i < j /\ filtered[i].created_at < filtered[j].created_at

====
